---- MODULE Spec2Model ----
(***************************************************************************)
(* A model of dataclass.py: the class decorator dataclass(cls), which      *)
(* collects the annotated fields of a class along its __mro__, validates   *)
(* their order and installs generated __init__, __repr__, comparison and   *)
(* __hash__ methods.                                                       *)
(*                                                                         *)
(* The Python objects the code touches are modelled as follows.            *)
(*   - a Python value is a record [t, v, s]: an int (t = "int", v its      *)
(*     value) or a str (t = "str", s its characters, v the identity of the *)
(*     string object: two strings with equal s and different v are equal   *)
(*     (==) and not identical (is));                                       *)
(*   - a class attribute is absent, a plain value or a field() descriptor; *)
(*   - a class is its bases, its __mro__, its own __annotations__, its own *)
(*     __dict__ entries for the field names, its own marker and the        *)
(*     generated methods installed in its own __dict__.                    *)
(***************************************************************************)
EXTENDS Integers, Sequences, FiniteSets, TLC

VARIABLES bases, mro, annotations, attrs, marker, methods, clsFields,
          inheritAnn, result, cmp

vars == <<bases, mro, annotations, attrs, marker, methods, clsFields,
          inheritAnn, result, cmp>>

(***************************************************************************)
(* Bounds of the model.                                                    *)
(***************************************************************************)
\* the number of annotated declarations in all class bodies together
MaxDecl == 2
\* as MaxDecl, for the behaviours that compare instances
MaxCmpDecl == 2
\* instance attributes hold the ints 0..MaxVal
MaxVal == 1

Classes == {"A", "B", "C"}
Names == {"a", "b", "c"}
NoName == ""
NoClass == ""

(***************************************************************************)
(* Python values.                                                          *)
(***************************************************************************)
PyInt(n) == [t |-> "int", v |-> n, s |-> ""]
PyStr(chars, oid) == [t |-> "str", v |-> oid, s |-> chars]

\* _MISSING = "MISSING": the sentinel is an ordinary str object
_MISSING == PyStr("MISSING", 0)
\* a str equal to the sentinel and held by another object (built at run
\* time, or a literal of an implementation that does not intern it)
MissingCopy == PyStr("MISSING", 1)

\* x is y
Is(x, y) == x = y
\* x == y
PyEq(x, y) == x.t = y.t /\ (IF x.t = "int" THEN x.v = y.v ELSE x.s = y.s)

(***************************************************************************)
(* Class attributes: absent, a plain value, or a field(default=v).         *)
(***************************************************************************)
NoAttr == [kind |-> "none", val |-> PyInt(0)]
Plain(x) == [kind |-> "plain", val |-> x]
\* class field: __init__(self, *, default=_MISSING) stores the default
field(default) == [kind |-> "field", val |-> default]

\* what a class body may bind an annotated name to
ClassVals == {NoAttr, Plain(PyInt(1)), Plain(_MISSING), Plain(MissingCopy),
              field(_MISSING), field(PyInt(1))}

CmpOps == {"__eq__", "__ne__", "__lt__", "__le__", "__gt__", "__ge__"}

\* no value, no instance, no call made yet
NoValue == [t |-> "none", v |-> 0, s |-> ""]
NoInstance == [cls |-> NoClass, oid |-> 0, dict |-> [n \in Names |-> NoValue]]
NoCmp == [x |-> NoInstance, y |-> NoInstance,
          out |-> [op \in CmpOps |-> ""], hx |-> 0, hy |-> 0]

MethodNames == {"__init__", "__repr__", "__eq__", "__ne__", "__lt__",
                "__le__", "__gt__", "__ge__", "__hash__"}

(***************************************************************************)
(* Sequence helpers.                                                       *)
(***************************************************************************)
Range(s) == {s[i] : i \in 1..Len(s)}
Reverse(s) == [i \in 1..Len(s) |-> s[Len(s) + 1 - i]]
Min(S) == CHOOSE x \in S : \A y \in S : x <= y
IndexOf(s, x) == Min({i \in 1..Len(s) : s[i] = x})

RECURSIVE Concat(_)
Concat(ss) == IF ss = <<>> THEN <<>> ELSE Head(ss) \o Concat(Tail(ss))

(***************************************************************************)
(* cls.__mro__: the C3 linearization of the class and its bases, ending in *)
(* object.  "!" marks a hierarchy with no consistent linearization (the    *)
(* class statement raises TypeError and no such class exists).             *)
(***************************************************************************)
RECURSIVE C3Merge(_)
C3Merge(seqs) ==
  LET ne == SelectSeq(seqs, LAMBDA q : q # <<>>)
  IN IF ne = <<>> THEN <<>>
     ELSE LET inTail(h) == \E i \in 1..Len(ne) : h \in Range(Tail(ne[i]))
              cand == {i \in 1..Len(ne) : ~inTail(Head(ne[i]))}
          IN IF cand = {} THEN <<"!">>
             ELSE LET h == Head(ne[Min(cand)])
                  IN <<h>> \o C3Merge([j \in 1..Len(ne) |->
                        IF Head(ne[j]) = h THEN Tail(ne[j]) ELSE ne[j]])

RECURSIVE Linearize(_, _)
Linearize(bs, c) ==
  IF c = "object" THEN <<"object">>
  ELSE LET b == IF bs[c] = <<>> THEN <<"object">> ELSE bs[c]
       IN <<c>> \o C3Merge([i \in 1..Len(b) |-> Linearize(bs, b[i])] \o <<b>>)

\* the class statements of the module: A, then B, then C, each deriving
\* from object or from classes defined before it
Hierarchies ==
  {h \in [Classes -> {<<>>, <<"A">>, <<"B">>, <<"A", "B">>, <<"B", "A">>}] :
     /\ h["A"] = <<>>
     /\ h["B"] \in {<<>>, <<"A">>}
     /\ \A c \in Classes : "!" \notin Range(Linearize(h, c))}

(***************************************************************************)
(* Attribute lookup on a class.                                            *)
(***************************************************************************)
\* the classes of m.__mro__ other than object, in lookup order
Lookup(m) == SelectSeq(mro[m], LAMBDA k : k \in Classes)

\* getattr(m, name, <absent>): the first __dict__ along the __mro__ that
\* binds the name
GetAttrIn(dicts, m, name) ==
  LET hit == SelectSeq(Lookup(m), LAMBDA k : dicts[k][name] # NoAttr)
  IN IF hit = <<>> THEN NoAttr ELSE dicts[hit[1]][name]

GetAttr(m, name) == GetAttrIn(attrs, m, name)

\* hasattr(m, _MARKER): a class attribute, so it is found on any base too
HasMarker(m) == \E k \in Range(Lookup(m)) : marker[k]

\* getattr(cls, '__annotations__', {}).  A class body without annotations
\* creates no __annotations__ of its own; CPython 3.6 to 3.9 then finds the
\* nearest base's dict, CPython 3.10 and later give the class an empty one.
GetAnnotations(m) ==
  IF inheritAnn
  THEN LET hit == SelectSeq(Lookup(m), LAMBDA k : annotations[k] # <<>>)
       IN IF hit = <<>> THEN <<>> ELSE annotations[hit[1]]
  ELSE annotations[m]

(***************************************************************************)
(* _find_fields(cls): a list of (name, field) for the annotations of cls.  *)
(***************************************************************************)
_find_fields(m) ==
  LET ann == GetAnnotations(m)
  IN [i \in 1..Len(ann) |->
        LET default == GetAttr(m, ann[i])
        IN [name |-> ann[i],
            default |-> IF default.kind = "field" THEN default.val
                        ELSE IF default.kind = "none" THEN _MISSING
                        ELSE default.val]]

(***************************************************************************)
(* dataclass(cls).                                                         *)
(***************************************************************************)
\* fields[name] = fieldinfo on an OrderedDict: a present key keeps its place
Upsert(fields, f) ==
  IF \E i \in 1..Len(fields) : fields[i].name = f.name
  THEN [i \in 1..Len(fields) |-> IF fields[i].name = f.name THEN f ELSE fields[i]]
  ELSE Append(fields, f)

RECURSIVE UpsertAll(_, _)
UpsertAll(fields, fs) ==
  IF fs = <<>> THEN fields ELSE UpsertAll(Upsert(fields, Head(fs)), Tail(fs))

\* if m is cls or hasattr(m, _MARKER)
Eligible(cls, m) == m = cls \/ HasMarker(m)

\* for m in reversed(cls.__mro__): ... fields[name] = fieldinfo
RECURSIVE Collect(_, _, _)
Collect(cls, ms, fields) ==
  IF ms = <<>> THEN fields
  ELSE Collect(cls, Tail(ms),
               IF Head(ms) \in Classes /\ Eligible(cls, Head(ms))
               THEN UpsertAll(fields, _find_fields(Head(ms)))
               ELSE fields)

CollectFields(cls) == Collect(cls, Reverse(mro[cls]), <<>>)

\* a replacement that stores a new str built from the default instead of
\* the default object itself
ReplaceDescriptorsByCopy(cls) ==
  LET fs == _find_fields(cls)
      mine == {i \in 1..Len(fs) : GetAttr(cls, fs[i].name).kind = "field"}
      copy(x) == IF x.t = "str" THEN PyStr(x.s, 1) ELSE x
  IN [n \in Names |->
        IF \E i \in mine : fs[i].name = n
        THEN Plain(copy(fs[CHOOSE i \in mine : fs[i].name = n].default))
        ELSE attrs[cls][n]]

\* if isinstance(getattr(cls, name, None), field): setattr(cls, name, ...)
ReplaceDescriptors(cls) ==
  LET fs == _find_fields(cls)
      mine == {i \in 1..Len(fs) : GetAttr(cls, fs[i].name).kind = "field"}
  IN [n \in Names |->
        IF \E i \in mine : fs[i].name = n
        THEN Plain(fs[CHOOSE i \in mine : fs[i].name = n].default)
        ELSE attrs[cls][n]]

\* a validation that goes through the whole mapping before it raises, and so
\* reports the last field out of order
RECURSIVE ValidateLast(_, _)
ValidateLast(fields, seen_default) ==
  IF fields = <<>> THEN NoName
  ELSE LET has == ~Is(Head(fields).default, _MISSING)
           later == ValidateLast(Tail(fields), seen_default \/ has)
       IN IF later # NoName THEN later
          ELSE IF ~has /\ seen_default THEN Head(fields).name
          ELSE NoName

\* the validation loop: the name the ValueError reports, or NoName
RECURSIVE Validate(_, _)
Validate(fields, seen_default) ==
  IF fields = <<>> THEN NoName
  ELSE IF ~Is(Head(fields).default, _MISSING) THEN Validate(Tail(fields), TRUE)
  ELSE IF seen_default THEN Head(fields).name
  ELSE Validate(Tail(fields), seen_default)

NoResult == [cls |-> NoClass, fields |-> <<>>, err |-> NoName]

Dataclass(cls) ==
  LET fields == CollectFields(cls)
      k == Validate(fields, FALSE)
  IN /\ attrs' = [attrs EXCEPT ![cls] = ReplaceDescriptors(cls)]
     /\ marker' = [marker EXCEPT ![cls] = TRUE]
     /\ IF k # NoName
        THEN UNCHANGED <<methods, clsFields>>
        ELSE /\ methods' = [methods EXCEPT ![cls] = MethodNames]
             /\ clsFields' = [clsFields EXCEPT ![cls] = fields]
     /\ result' = [cls |-> cls, fields |-> fields, err |-> k]
     /\ cmp' = NoCmp
     /\ UNCHANGED <<bases, mro, annotations, inheritAnn>>

(***************************************************************************)
(* The generated functions.  _create_fn compiles a text; the model keeps   *)
(* what the text denotes: the parameters, and for each kind of body the    *)
(* expressions it evaluates.                                               *)
(***************************************************************************)
_SELF_NAME == "_self"
_OTHER_NAME == "_other"

\* _tuple_str(obj_name, fields): the text of a tuple display, '()' for no
\* field, else '(obj.f1,obj.f2,...,)' with its trailing comma
_tuple_str(obj_name, fields) ==
  IF Len(fields) = 0
  THEN [obj |-> obj_name, items |-> <<>>, comma |-> FALSE]
  ELSE [obj |-> obj_name,
        items |-> [i \in 1..Len(fields) |-> fields[i].name],
        comma |-> TRUE]

\* the parameters after _self: f, or f=_def_f bound to info.default
InitArgs(fields) ==
  [i \in 1..Len(fields) |->
     [name |-> fields[i].name,
      optional |-> ~Is(fields[i].default, _MISSING),
      default |-> fields[i].default]]

_create_init(fields) ==
  [name |-> "__init__", args |-> InitArgs(fields),
   body |-> [i \in 1..Len(fields) |-> fields[i].name]]

_create_cmp_fn(name, op, fields) ==
  [name |-> name, op |-> op,
   self_tuple |-> _tuple_str(_SELF_NAME, fields),
   other_tuple |-> _tuple_str(_OTHER_NAME, fields)]

_create_eq(fields) == _create_cmp_fn("__eq__", "==", fields)
\* __lt__ made with the operator of __le__
_create_lt_as_le(fields) == _create_cmp_fn("__lt__", "<=", fields)

_create_lt(fields) == _create_cmp_fn("__lt__", "<", fields)
_create_le(fields) == _create_cmp_fn("__le__", "<=", fields)
_create_gt(fields) == _create_cmp_fn("__gt__", ">", fields)
_create_ge(fields) == _create_cmp_fn("__ge__", ">=", fields)

_create_hash(fields) ==
  [name |-> "__hash__", self_tuple |-> _tuple_str(_SELF_NAME, fields)]

(***************************************************************************)
(* Instances and the evaluation of the generated bodies.                   *)
(***************************************************************************)

\* the class whose __dict__ holds the method an instance of c finds
RECURSIVE FirstWith(_, _)
FirstWith(ks, name) ==
  IF ks = <<>> THEN NoClass
  ELSE IF name \in methods[Head(ks)] THEN Head(ks)
  ELSE FirstWith(Tail(ks), name)

Resolve(c, name) == FirstWith(Lookup(c), name)

\* the argument lists a call c(*args) accepts: the generated __init__ binds
\* them to its parameters by position, and the missing ones need a default;
\* object's __init__ takes none
Accepts(c, args) ==
  LET k == Resolve(c, "__init__")
  IN IF k = NoClass THEN args = <<>>
     ELSE LET ps == _create_init(clsFields[k]).args
          IN /\ Len(args) <= Len(ps)
             /\ \A i \in (Len(args) + 1)..Len(ps) : ps[i].optional

\* c(*args): the body of the generated __init__ sets _self.f = f
New(c, oid, args) ==
  LET k == Resolve(c, "__init__")
      fn == _create_init(IF k = NoClass THEN <<>> ELSE clsFields[k])
      bound == [i \in 1..Len(fn.args) |->
                  IF i <= Len(args) THEN args[i] ELSE fn.args[i].default]
  IN [cls |-> c, oid |-> oid,
      dict |-> [n \in Names |->
                  IF \E i \in 1..Len(fn.body) : fn.body[i] = n
                  THEN bound[CHOOSE i \in 1..Len(fn.body) : fn.body[i] = n]
                  ELSE NoValue]]

\* obj.f: the instance __dict__, then the class
ReadAttr(obj, f) ==
  IF obj.dict[f] # NoValue THEN obj.dict[f]
  ELSE IF GetAttr(obj.cls, f).kind = "plain" THEN GetAttr(obj.cls, f).val
  ELSE NoValue

\* the value of a tuple display: a tuple, or for one item without the
\* trailing comma the parenthesized item itself
EvalTuple(expr, obj) ==
  [tuple |-> Len(expr.items) # 1 \/ expr.comma,
   items |-> [i \in 1..Len(expr.items) |-> ReadAttr(obj, expr.items[i])]]

Raises(val) == \E i \in 1..Len(val.items) : val.items[i] = NoValue

\* a op b on two values of one type
ValueOp(op, a, b) ==
  LET ka == IF a.t = "int" THEN a.v ELSE 0
      kb == IF b.t = "int" THEN b.v ELSE 0
  IN CASE op = "==" -> PyEq(a, b)
       [] op = "<"  -> ka < kb
       [] op = "<=" -> ka <= kb
       [] op = ">"  -> ka > kb
       [] op = ">=" -> ka >= kb

\* the comparison of two sequences: the first unequal pair decides, and
\* without one the lengths do
RECURSIVE SeqOp(_, _, _)
SeqOp(op, a, b) ==
  IF a = <<>> \/ b = <<>>
  THEN CASE op = "==" -> Len(a) = Len(b)
         [] op = "<"  -> Len(a) < Len(b)
         [] op = "<=" -> Len(a) <= Len(b)
         [] op = ">"  -> Len(a) > Len(b)
         [] op = ">=" -> Len(a) >= Len(b)
  ELSE IF PyEq(Head(a), Head(b)) THEN SeqOp(op, Tail(a), Tail(b))
  ELSE ValueOp(op, Head(a), Head(b))

PyOp(op, x, y) ==
  IF x.tuple /\ y.tuple THEN SeqOp(op, x.items, y.items)
  ELSE ValueOp(op, x.items[1], y.items[1])

PyBool(b) == IF b THEN "True" ELSE "False"

\* a body that tests isinstance(_other, _self.__class__) instead of the
\* identity of the two classes
CallCmpIsInstance(fn, self, other) ==
  IF self.cls \in Range(mro[other.cls])
  THEN LET x == EvalTuple(fn.self_tuple, self)
           y == EvalTuple(fn.other_tuple, other)
       IN IF Raises(x) \/ Raises(y) THEN "AttributeError"
          ELSE PyBool(PyOp(fn.op, x, y))
  ELSE "NotImplemented"

\* the body of a function _create_cmp_fn made
CallCmp(fn, self, other) ==
  IF other.cls = self.cls
  THEN LET x == EvalTuple(fn.self_tuple, self)
           y == EvalTuple(fn.other_tuple, other)
       IN IF Raises(x) \/ Raises(y) THEN "AttributeError"
          ELSE PyBool(PyOp(fn.op, x, y))
  ELSE "NotImplemented"

\* self.__eq__(other), found on the class of self
CallEq(self, other) ==
  CallCmp(_create_eq(clsFields[Resolve(self.cls, "__eq__")]), self, other)

\* _create_ne: NotImplemented if result is NotImplemented else not result
CallNe(self, other) ==
  LET r == CallEq(self, other)
  IN IF r = "NotImplemented" THEN "NotImplemented"
     ELSE IF r = "True" THEN "False"
     ELSE IF r = "False" THEN "True"
     ELSE r

\* hash() of an int is the int; of a tuple, a mix of the hashes of its items
\* in their order
RECURSIVE HashSeq(_, _)
HashSeq(items, acc) ==
  IF items = <<>> THEN acc
  ELSE HashSeq(Tail(items), (acc * 31 + Head(items).v + 1) % 65521)

PyHash(val) == IF val.tuple THEN HashSeq(val.items, 7) ELSE val.items[1].v

\* a __hash__ that is object's: the identity of the instance
CallHashIdentity(fn, self) == self.oid

\* the body of the function _create_hash made
CallHash(fn, self) == PyHash(EvalTuple(fn.self_tuple, self))

CallMethod(name, self, other) ==
  LET fields == clsFields[Resolve(self.cls, name)]
  IN CASE name = "__eq__" -> CallEq(self, other)
       [] name = "__ne__" -> CallNe(self, other)
       [] name = "__lt__" -> CallCmp(_create_lt(fields), self, other)
       [] name = "__le__" -> CallCmp(_create_le(fields), self, other)
       [] name = "__gt__" -> CallCmp(_create_gt(fields), self, other)
       [] name = "__ge__" -> CallCmp(_create_ge(fields), self, other)

\* the argument lists of the model: ints 0..MaxVal
ArgLists(n) == UNION {[1..k -> {PyInt(v) : v \in 0..MaxVal}] : k \in 0..n}

\* the calls c(*args) that raise no TypeError
ArgsFor(c) ==
  LET k == Resolve(c, "__init__")
      n == IF k = NoClass THEN 0 ELSE Len(clsFields[k])
  IN {args \in ArgLists(n) : Accepts(c, args)}

\* x = xc(*xa); y = yc(*ya); then x.__eq__(y), ..., x.__ge__(y) and
\* x.__hash__(), y.__hash__(), each looked up on the class of its instance
Compare(xc, xa, yc, ya) ==
  /\ Resolve(xc, "__eq__") # NoClass
  /\ LET x == New(xc, 1, xa)
         y == New(yc, 2, ya)
         hc == Resolve(yc, "__hash__")
     IN cmp' = [x |-> x, y |-> y,
                out |-> [op \in CmpOps |-> CallMethod(op, x, y)],
                hx |-> CallHash(_create_hash(clsFields[Resolve(xc, "__hash__")]), x),
                hy |-> IF hc = NoClass THEN y.oid
                       ELSE CallHash(_create_hash(clsFields[hc]), y)]
  /\ UNCHANGED <<bases, mro, annotations, attrs, marker, methods, clsFields,
                 inheritAnn, result>>

(***************************************************************************)
(* The module's class statements: the state before any dataclass() call.   *)
(***************************************************************************)
ClassOrder == <<"A", "B", "C">>

\* sequences of distinct names
DistinctSeqs(n) ==
  UNION {{q \in [1..k -> Names] : \A i, j \in 1..k : i # j => q[i] # q[j]} :
         k \in 0..n}

\* the names of all bodies in source order
AllDecls(ann) == Concat([i \in 1..Len(ClassOrder) |-> ann[ClassOrder[i]]])

\* Field names are interchangeable: the bodies introduce them in
\* alphabetical order.
NameOrder == <<"a", "b", "c">>
Canonical(ds) ==
  \A i \in 1..Len(ds) :
    \A j \in 1..Len(NameOrder) :
      (ds[i] = NameOrder[j] /\ j > 1) =>
        \E k \in 1..(i - 1) : ds[k] = NameOrder[j - 1]

\* the index of class c's i-th declaration among all declarations
Slot(ann, c, i) ==
  LET ci == IndexOf(ClassOrder, c)
  IN Len(Concat([j \in 1..(ci - 1) |-> ann[ClassOrder[j]]])) + i

\* the two lookups of __annotations__ differ on some class: one without
\* annotations below one with annotations
InheritanceShows(m, ann) ==
  \E c \in Classes :
    /\ ann[c] = <<>>
    /\ \E k \in Range(m[c]) : k \in Classes /\ ann[k] # <<>>

\* plain int bindings only
BasicVals == {NoAttr, Plain(PyInt(1))}

World(hs, maxDecl, vals) ==
  /\ bases \in hs
  /\ mro = [c \in Classes |-> Linearize(bases, c)]
  /\ annotations \in [Classes -> DistinctSeqs(Cardinality(Names))]
  /\ inheritAnn \in (IF InheritanceShows(mro, annotations) THEN BOOLEAN ELSE {FALSE})
  /\ Len(AllDecls(annotations)) <= maxDecl
  /\ Canonical(AllDecls(annotations))
  /\ \E bound \in [1..Len(AllDecls(annotations)) -> vals] :
       attrs = [c \in Classes |-> [n \in Names |->
                  IF n \in Range(annotations[c])
                  THEN bound[Slot(annotations, c, IndexOf(annotations[c], n))]
                  ELSE NoAttr]]
  /\ marker = [c \in Classes |-> FALSE]
  /\ methods = [c \in Classes |-> {}]
  /\ clsFields = [c \in Classes |-> <<>>]
  /\ result = NoResult
  /\ cmp = NoCmp

Init ==
  \/ World(Hierarchies, MaxDecl, ClassVals)
  \/ World(Hierarchies, MaxDecl + 1, BasicVals)

Next == \E cls \in Classes : Dataclass(cls)

Spec == Init /\ [][Next]_vars

\* the behaviours that build and compare instances
\* B derives from A and C from neither: an instance meets instances of its
\* own class, of a subclass, of a base class and of an unrelated class
CmpHierarchies == {h \in Hierarchies : h["B"] = <<"A">> /\ h["C"] = <<>>}

\* every field is declared without a value, so every call passes every
\* argument
InitCmp == World(CmpHierarchies, MaxCmpDecl, {NoAttr})

NextCmp ==
  \/ \E cls \in Classes : Dataclass(cls)
  \/ /\ cmp = NoCmp
     /\ \E xc \in Classes, yc \in Classes :
          \E xa \in ArgsFor(xc), ya \in ArgsFor(yc) : Compare(xc, xa, yc, ya)

SpecCmp == InitCmp /\ [][NextCmp]_vars

(***************************************************************************)
(* The claims.                                                             *)
(***************************************************************************)
NamesOf(fields) == [i \in 1..Len(fields) |-> fields[i].name]
HasDefault(f) == f.default # _MISSING
\* the positions of the fields without a default after one with a default
OutOfOrder(fields) ==
  {i \in 1..Len(fields) :
     ~HasDefault(fields[i]) /\ \E j \in 1..(i - 1) : HasDefault(fields[j])}

\* C1: dataclass(cls) succeeds (and installs the methods) exactly when no
\* field of the mapping it built lacks a default after a field that has
\* one; otherwise its ValueError names the first such field of the mapping.
C1_OrderingError ==
  result.cls # NoClass =>
    LET bad == OutOfOrder(result.fields)
    IN /\ (result.err = NoName) <=> (bad = {})
       /\ bad # {} => result.err = result.fields[Min(bad)].name
       /\ result.err = NoName =>
            /\ methods[result.cls] = MethodNames
            /\ clsFields[result.cls] = result.fields

\* a failed decoration whose mapping holds two fields out of order, the
\* error naming the first of them
C1_Witness ==
  /\ result.cls # NoClass
  /\ Cardinality(OutOfOrder(result.fields)) = 2
  /\ result.err = result.fields[Min(OutOfOrder(result.fields))].name

\* a successful decoration of a class with fields without and with defaults
C1_WitnessOk ==
  /\ result.cls # NoClass
  /\ result.err = NoName
  /\ Len(result.fields) = 3
  /\ ~HasDefault(result.fields[1])
  /\ HasDefault(result.fields[3])

\* C2: a dataclass(cls) call that raises the ordering error leaves the
\* class as it was: no attribute replaced, no marker added, no method
\* installed.
C2_FailureLeavesClassUntouched ==
  [][(result' # result /\ result'.err # NoName) =>
       (attrs' = attrs /\ marker' = marker /\ methods' = methods
        /\ clsFields' = clsFields)]_vars

\* the fields the methods an instance of c finds were generated from
FieldsOf(c) == clsFields[Resolve(c, "__eq__")]
SameValues(x, y, names) ==
  \A i \in 1..Len(names) : PyEq(x.dict[names[i]], y.dict[names[i]])

\* C3: __eq__ returns True exactly when the other instance is of the very
\* same class and the field values are pairwise equal; two such instances
\* also hash alike.
C3_EqAndHash ==
  cmp.x.cls # NoClass =>
    LET same == /\ cmp.y.cls = cmp.x.cls
                /\ SameValues(cmp.x, cmp.y, NamesOf(FieldsOf(cmp.x.cls)))
    IN /\ (cmp.out["__eq__"] = "True") <=> same
       /\ same => cmp.hx = cmp.hy

\* two distinct instances of a class of two fields that hold the same values
C3_Witness ==
  /\ cmp.x.cls # NoClass
  /\ cmp.y.cls = cmp.x.cls
  /\ cmp.x.oid # cmp.y.oid
  /\ Len(FieldsOf(cmp.x.cls)) = 2
  /\ cmp.out["__eq__"] = "True"
  /\ cmp.hx = cmp.hy

\* two instances of a class without fields
C3_WitnessNoFields ==
  /\ cmp.x.cls # NoClass
  /\ cmp.y.cls = cmp.x.cls
  /\ FieldsOf(cmp.x.cls) = <<>>
  /\ cmp.out["__eq__"] = "True"

\* C4: each of the six comparison methods returns NotImplemented, and does
\* not raise, when the other operand is of another class; __ne__ returns
\* NotImplemented exactly when __eq__ does and else the negation of __eq__.
C4_OtherClassNotImplemented ==
  cmp.x.cls # NoClass =>
    /\ cmp.y.cls # cmp.x.cls =>
         \A op \in CmpOps : cmp.out[op] = "NotImplemented"
    /\ (cmp.out["__ne__"] = "NotImplemented") <=>
         (cmp.out["__eq__"] = "NotImplemented")
    /\ cmp.out["__eq__"] = "True" => cmp.out["__ne__"] = "False"
    /\ cmp.out["__eq__"] = "False" => cmp.out["__ne__"] = "True"
    /\ cmp.out["__eq__"] \in {"True", "False", "NotImplemented"}

\* an instance compared with an instance of a subclass that holds the same
\* fields and values
C4_Witness ==
  /\ cmp.x.cls = "A" /\ cmp.y.cls = "B"
  /\ FieldsOf("A") # <<>>
  /\ cmp.x.dict = cmp.y.dict
  /\ cmp.out["__lt__"] = "NotImplemented"

\* an instance compared with an instance of an unrelated, undecorated class
C4_WitnessUnrelated ==
  /\ cmp.x.cls = "A" /\ cmp.y.cls = "C"
  /\ ~marker["C"]
  /\ cmp.out["__eq__"] = "NotImplemented"

\* the first position at which two instances differ decides with < ...
LexLess(x, y, names) ==
  \E i \in 1..Len(names) :
    /\ x.dict[names[i]].v < y.dict[names[i]].v
    /\ \A j \in 1..(i - 1) : x.dict[names[j]].v = y.dict[names[j]].v
\* ... and they are equal if they differ nowhere
LexEqual(x, y, names) ==
  \A i \in 1..Len(names) : x.dict[names[i]].v = y.dict[names[i]].v

\* C5: between two instances of one class, __lt__, __le__, __gt__ and
\* __ge__ return the lexicographic order of the field values in mapping
\* order.
C5_Lexicographic ==
  (cmp.x.cls # NoClass /\ cmp.y.cls = cmp.x.cls) =>
    LET names == NamesOf(FieldsOf(cmp.x.cls))
        lt == LexLess(cmp.x, cmp.y, names)
        gt == LexLess(cmp.y, cmp.x, names)
        eq == LexEqual(cmp.x, cmp.y, names)
    IN /\ cmp.out["__lt__"] = PyBool(lt)
       /\ cmp.out["__le__"] = PyBool(lt \/ eq)
       /\ cmp.out["__gt__"] = PyBool(gt)
       /\ cmp.out["__ge__"] = PyBool(gt \/ eq)

\* fields (a, b): (1, 0) < (1, 1), decided by the second field
C5_Witness ==
  /\ cmp.x.cls # NoClass /\ cmp.y.cls = cmp.x.cls
  /\ LET names == NamesOf(FieldsOf(cmp.x.cls))
     IN /\ Len(names) = 2
        /\ cmp.x.dict[names[1]] = PyInt(1) /\ cmp.y.dict[names[1]] = PyInt(1)
        /\ cmp.x.dict[names[2]] = PyInt(0) /\ cmp.y.dict[names[2]] = PyInt(1)
  /\ cmp.out["__lt__"] = "True"
  /\ cmp.out["__ge__"] = "False"

\* the proper bases of c that dataclass() was called on
DecoratedBases(c) == {k \in Range(Lookup(c)) \ {c} : marker[k]}

\* C6: a field a decorated subclass declares again after a decorated base
\* has one entry in the subclass's mapping, at the place it has from the
\* base (before every field only the subclass declares), with the default
\* the subclass gives it, which is the default of the __init__ parameter.
C6_RedeclaredField ==
  (result.cls # NoClass /\ result.err = NoName) =>
    \A n \in Range(annotations[result.cls]) :
      ((\E k \in DecoratedBases(result.cls) : n \in Range(annotations[k]))
         /\ attrs[result.cls][n] # NoAttr) =>
        LET c == result.cls
            fs == result.fields
            at == {i \in 1..Len(fs) : fs[i].name = n}
            i == CHOOSE i \in at : TRUE
            own == {j \in 1..Len(fs) :
                      \A k \in Range(Lookup(c)) \ {c} :
                        fs[j].name \notin Range(annotations[k])}
        IN /\ Cardinality(at) = 1
           /\ fs[i].default = attrs[c][n].val
           /\ \A j \in own : i < j
           /\ InitArgs(clsFields[c])[i].optional
           /\ InitArgs(clsFields[c])[i].default = attrs[c][n].val

\* C7: a field the class body binds to a plain value v gives __init__ an
\* optional parameter with the default v, whatever v is.
C7_PlainValueIsDefault ==
  [][\A c \in Classes :
       (result' # result /\ result'.cls = c /\ result'.err = NoName
          /\ ~marker[c]) =>
         \A i \in 1..Len(result'.fields) :
           attrs[c][result'.fields[i].name].kind = "plain" =>
             /\ InitArgs(result'.fields)[i].optional
             /\ InitArgs(result'.fields)[i].default =
                  attrs[c][result'.fields[i].name].val]_vars

\* C8: right after dataclass(cls), a second dataclass(cls) builds the same
\* mapping, raises or not as the first did, and changes nothing of the
\* class, its attributes and its methods.
C8_Redecoration ==
  result.cls # NoClass =>
    LET c == result.cls
        again == CollectFields(c)
    IN /\ again = result.fields
       /\ Validate(again, FALSE) = result.err
       /\ ReplaceDescriptors(c) = attrs[c]
       /\ marker[c]
       /\ result.err = NoName => clsFields[c] = again

\* a decorated class with a field whose descriptor had no default: the
\* class attribute now holds the sentinel, and the field is still required
C8_Witness ==
  /\ result.cls # NoClass
  /\ result.err = NoName
  /\ \E i \in 1..Len(result.fields) :
       /\ attrs[result.cls][result.fields[i].name] = Plain(_MISSING)
       /\ ~HasDefault(result.fields[i])
  /\ \E i \in 1..Len(result.fields) : HasDefault(result.fields[i])

\* the classes of cls.__mro__ whose fields dataclass(cls) collects and that
\* have the name among their annotations
Contributors(cls, n) ==
  {k \in Range(Lookup(cls)) :
     Eligible(cls, k) /\ n \in Range(GetAnnotations(k))}

\* C9: after a successful dataclass(cls), no field of the mapping that cls
\* or a collected ancestor bound to a field descriptor is a field descriptor
\* when read from cls: the read gives the descriptor's default.
C9_NoDescriptorLeft ==
  [][\A c \in Classes :
       (result' # result /\ result'.cls = c /\ result'.err = NoName) =>
         \A i \in 1..Len(result'.fields) :
           LET n == result'.fields[i].name
           IN (\E k \in Contributors(c, n) : GetAttr(k, n).kind = "field") =>
                GetAttrIn(attrs', c, n) = Plain(result'.fields[i].default)]_vars

\* C10: the mapping dataclass(cls) builds holds the fields declared by cls
\* and by the classes of its __mro__ that dataclass() was called on, and no
\* others.
C10_OnlyDecoratedContribute ==
  result.cls # NoClass =>
    Range(NamesOf(result.fields)) =
      UNION {Range(GetAnnotations(k)) :
               k \in {result.cls} \cup DecoratedBases(result.cls)}

====
